---- MODULE Spec2Model ----
(***************************************************************************)
(* PatternFileRecognizer (src/src/pattern_file_recognizer/recognizer.py).  *)
(*                                                                         *)
(* Strings are sequences of characters; a character is a one-name string.  *)
(* "IDOT" stands for U+0130 (capital I with dot above), the one character  *)
(* whose str.lower() has two characters: "i" followed by U+0307, written   *)
(* "DOTABOVE".  Offsets are Python's (0-based, end exclusive); sequences   *)
(* are 1-based, so Python's s[k] is s[k+1] here.                           *)
(*                                                                         *)
(* The keyword matcher is flashtext's KeywordProcessor (imported on line   *)
(* 7), which the recognizer creates (line 32), fills (line 45) and queries *)
(* (line 108).  add_keyword and extract_keywords are transcribed from the  *)
(* library (flashtext 2.7), statement by statement.  Its trie of nested    *)
(* dicts is written as a function from the lower-cased keyword to its      *)
(* clean name: a node is the path that leads to it.                        *)
(***************************************************************************)
EXTENDS Integers, Sequences, FiniteSets, TLC

\* ------------------------------------------------------------------ bounds
MaxTextLen == 3
MaxPatterns == 2
MaxThreadTextLen == 3
MaxPatternsFiles == 2
MaxAllowlistFiles == 1

\* ---------------------------------------------------------------- the state
VARIABLES
    patterns_files,      \* argument: list of FileSpec
    allowlist_files,     \* argument: list of FileSpec (None is the empty list)
    csv_column,          \* self.csv_column
    case_sensitive,      \* self.case_sensitive
    pc,                  \* the statement of __init__ to run, "built" or "failed"
    next_file,           \* index of the next file of the loop being run
    error,               \* the exception __init__ raised, or "none"
    accessed,            \* paths handed to Path.exists(), in order
    allowlist,           \* local of _load_allowlist / __init__
    patterns,            \* local of _load_patterns / __init__
    filtered_patterns,   \* local of __init__
    keyword_trie_dict,   \* self.keyword_processor.keyword_trie_dict
    request,             \* the text the caller is about to hand to analyze
    text,                \* argument of the latest analyze call
    results,             \* what the latest analyze call returned
    threads              \* locals of the analyze calls in progress, per thread

vars == <<patterns_files, allowlist_files, csv_column, case_sensitive, pc, next_file,
          error,
          accessed, allowlist, patterns, filtered_patterns, keyword_trie_dict,
          request, text, results, threads>>

config == <<patterns_files, allowlist_files, csv_column, case_sensitive, request>>

\* -------------------------------------------------------------- characters
TextChars == {"a", "A", "b", " ", "-", "IDOT"}
ThreadChars == {"a", " "}

\* str.lower() of one character
LowerChar(c) ==
    IF c = "A" THEN <<"a">>
    ELSE IF c = "IDOT" THEN <<"i", "DOTABOVE">>
    ELSE <<c>>

RECURSIVE lower(_)
lower(s) == IF s = <<>> THEN <<>> ELSE LowerChar(Head(s)) \o lower(Tail(s))

\* str.isspace() on the characters used here
IsSpace(c) == c = " "

RECURSIVE lstrip(_)
lstrip(s) == IF s # <<>> /\ IsSpace(Head(s)) THEN lstrip(Tail(s)) ELSE s

RECURSIVE rstrip(_)
rstrip(s) ==
    IF s # <<>> /\ IsSpace(s[Len(s)]) THEN rstrip(SubSeq(s, 1, Len(s) - 1)) ELSE s

strip(s) == rstrip(lstrip(s))

startswith(s, c) == s # <<>> /\ Head(s) = c

\* flashtext: set(string.digits + string.ascii_letters + '_')
non_word_boundaries == {"a", "A", "b", "i", "_"}

\* ------------------------------------------------------------ the file system
NoValue == <<"None">>

Disk ==
    [ p \in {"p1.txt", "p2.txt", "none.txt", "al.txt", "c.csv", "gone.txt"} |->
        CASE p = "p1.txt" ->
               [exists |-> TRUE, suffix |-> ".txt",
                lines |-> << <<" ", "a", " ">>, <<"#", "b">>, <<>>, <<"a">>, <<"A">> >>]
          [] p = "p2.txt" ->
               [exists |-> TRUE, suffix |-> ".txt",
                lines |-> << <<"b">>, <<"a", " ", "b">>, <<"a">> >>]
          [] p = "none.txt" ->
               [exists |-> TRUE, suffix |-> ".txt",
                lines |-> << <<"#", "a">>, <<" ", " ">> >>]
          [] p = "al.txt" ->
               [exists |-> TRUE, suffix |-> ".TXT",
                lines |-> << <<"a">>, <<"a", " ", "b">> >>]
          [] p = "c.csv" ->
               [exists |-> TRUE, suffix |-> ".CSV",
                fieldnames |-> <<"name", "alt">>,
                rows |-> << << <<"A">>, <<"a">> >>,
                            << <<" ">>, <<" ", "b">> >>,
                            << <<"b">> >> >>]
          [] OTHER ->
               [exists |-> FALSE, suffix |-> ".txt"] ]

Paths == DOMAIN Disk

\* a FileSpec is a path, or a (path, column) pair; the bare path is written
\* as the pair with the column NoColumn
NoColumn == ""
IsTuple(file_spec) == file_spec[2] # NoColumn
FileSpecs == (Paths \X {NoColumn}) \cup {<<"c.csv", "alt">>}

LowerSuffix(x) == IF x = ".CSV" THEN ".csv" ELSE IF x = ".TXT" THEN ".txt" ELSE x

SpecPath(file_spec) == file_spec[1]
SpecColumn(file_spec, default) == IF IsTuple(file_spec) THEN file_spec[2] ELSE default

\* _load_txt: strip each line, keep it unless empty or a comment
RECURSIVE TxtEntries(_)
TxtEntries(lines) ==
    IF lines = <<>> THEN <<>>
    ELSE LET line == strip(Head(lines))
         IN  (IF line # <<>> /\ ~startswith(line, "#") THEN <<line>> ELSE <<>>)
             \o TxtEntries(Tail(lines))

_load_txt(path) == TxtEntries(Disk[path].lines)

ColumnIndex(fieldnames, column) ==
    CHOOSE i \in 1..Len(fieldnames) : fieldnames[i] = column

\* csv.DictReader: a row shorter than the header has None for the rest
RowValue(row, i) == IF i <= Len(row) THEN row[i] ELSE NoValue

RECURSIVE CsvEntries(_, _)
CsvEntries(rows, i) ==
    IF rows = <<>> THEN <<>>
    ELSE LET value == RowValue(Head(rows), i)
         IN  (IF value # NoValue /\ value # <<>> /\ strip(value) # <<>>
                 THEN <<strip(value)>> ELSE <<>>)
             \o CsvEntries(Tail(rows), i)

HasColumn(path, column) ==
    \E i \in 1..Len(Disk[path].fieldnames) : Disk[path].fieldnames[i] = column

_load_csv(path, column) ==
    CsvEntries(Disk[path].rows, ColumnIndex(Disk[path].fieldnames, column))

IsCsv(path) == LowerSuffix(Disk[path].suffix) = ".csv"

\* _load_file: what the call raises ("none" when it returns) ...
LoadError(file_spec, default) ==
    LET path == SpecPath(file_spec)
    IN  IF ~Disk[path].exists THEN "FileNotFoundError"
        ELSE IF IsCsv(path) /\ ~HasColumn(path, SpecColumn(file_spec, default))
             THEN "ValueError: column not found"
        ELSE "none"

\* ... and what it returns
_load_file(file_spec, default) ==
    LET path == SpecPath(file_spec)
    IN  IF IsCsv(path) THEN _load_csv(path, SpecColumn(file_spec, default))
        ELSE _load_txt(path)

\* a loader that keeps every entry, repeated ones included
RECURSIVE fromkeys_all(_, _)
fromkeys_all(pats, seen) == pats

\* list(dict.fromkeys(patterns)): first occurrences, in order
RECURSIVE fromkeys(_, _)
fromkeys(pats, seen) ==
    IF pats = <<>> THEN <<>>
    ELSE IF Head(pats) \in seen THEN fromkeys(Tail(pats), seen)
    ELSE <<Head(pats)>> \o fromkeys(Tail(pats), seen \cup {Head(pats)})

Range(s) == {s[i] : i \in DOMAIN s}

\* a filter that compares raw strings whatever the flag
FilterExact(pats, allow, cs) == SelectSeq(pats, LAMBDA p : p \notin allow)

\* lines 37-43: the patterns that survive the allowlist
FilterPatterns(pats, allow, cs) ==
    IF cs THEN SelectSeq(pats, LAMBDA p : p \notin allow)
    ELSE LET allowlist_lower == {lower(a) : a \in allow}
         IN  SelectSeq(pats, LAMBDA p : lower(p) \notin allowlist_lower)

\* ------------------------------------------------- flashtext KeywordProcessor
EmptyTrie == [k \in {} |-> <<>>]

\* KeywordProcessor.add_keyword(keyword): clean_name defaults to the keyword
add_keyword(trie, keyword, cs) ==
    IF keyword = <<>> THEN trie
    ELSE LET key == IF cs THEN keyword ELSE lower(keyword)
         IN  [k \in DOMAIN trie \cup {key} |-> IF k = key THEN keyword ELSE trie[k]]

RECURSIVE add_keywords_from_list(_, _, _)
add_keywords_from_list(trie, keyword_list, cs) ==
    IF keyword_list = <<>> THEN trie
    ELSE add_keywords_from_list(add_keyword(trie, Head(keyword_list), cs),
                                Tail(keyword_list), cs)

IsPrefix(p, k) == Len(p) <= Len(k) /\ SubSeq(k, 1, Len(p)) = p

\* self._keyword in current_dict
HasKeyword(trie, node) == node \in DOMAIN trie
\* char in current_dict
HasChild(trie, node, char) == \E k \in DOMAIN trie : IsPrefix(Append(node, char), k)

\* the inner loop of extract_keywords that looks for a longer keyword from a
\* boundary character on; best is (is_longer_seq_found, sequence_end_pos)
RECURSIVE LongerSequence(_, _, _, _, _)
LongerSequence(trie, sentence, current_dict_continued, idy, best) ==
    IF idy >= Len(sentence)
    THEN IF HasKeyword(trie, current_dict_continued)
            THEN [found |-> TRUE, end |-> idy] ELSE best
    ELSE LET inner_char == sentence[idy + 1]
             best2 == IF inner_char \notin non_word_boundaries
                         /\ HasKeyword(trie, current_dict_continued)
                      THEN [found |-> TRUE, end |-> idy] ELSE best
         IN  IF HasChild(trie, current_dict_continued, inner_char)
             THEN LongerSequence(trie, sentence,
                                 Append(current_dict_continued, inner_char),
                                 idy + 1, best2)
             ELSE best2

\* skip to end of word: the first boundary character after idx, or the end
RECURSIVE SkipWord(_, _)
SkipWord(sentence, idy) ==
    IF idy < Len(sentence) /\ sentence[idy + 1] \in non_word_boundaries
    THEN SkipWord(sentence, idy + 1) ELSE idy

\* the locals of one extract_keywords call
ScanStart ==
    [idx |-> 0, current_dict |-> <<>>, sequence_start_pos |-> 0,
     keywords_extracted |-> <<>>]

\* a scanner that keeps its trie cursor on the instance, where the call on
\* thread 1 moves it
CurrentDictShared(st) == threads[1].locals.current_dict

\* current_dict is a local of the call
CurrentDict(st) == st.current_dict

\* a scanner that never moves the start of the sequence
ResetStartNever(reset, sequence_start_pos, idx) == sequence_start_pos

\* "if reset_current_dict: sequence_start_pos = idx", idx already incremented
ResetStart(reset, sequence_start_pos, idx) ==
    IF reset THEN idx ELSE sequence_start_pos

\* one iteration of the outer while loop of extract_keywords
ScanStep(trie, sentence, st) ==
    LET char == sentence[st.idx + 1]
        cur == CurrentDict(st)
        boundary == char \notin non_word_boundaries
        atEnd == boundary /\ (HasKeyword(trie, cur) \/ HasChild(trie, cur, char))
        longer == IF atEnd /\ HasChild(trie, cur, char)
                  THEN LongerSequence(trie, sentence, Append(cur, char), st.idx + 1,
                                      [found |-> FALSE, end |-> st.idx])
                  ELSE [found |-> FALSE, end |-> st.idx]
        continue == ~boundary /\ HasChild(trie, cur, char)
        idx1 == IF boundary THEN (IF longer.found THEN longer.end ELSE st.idx)
                ELSE IF continue THEN st.idx
                ELSE SkipWord(sentence, st.idx + 1)
        dict1 == IF continue THEN Append(cur, char) ELSE <<>>
        name1 == IF longer.found
                 THEN trie[SubSeq(sentence, st.sequence_start_pos + 1, longer.end)]
                 ELSE trie[cur]
        out1 == IF atEnd /\ (HasKeyword(trie, cur) \/ longer.found)
                THEN Append(st.keywords_extracted,
                            <<name1, st.sequence_start_pos, idx1>>)
                ELSE st.keywords_extracted
        out2 == IF idx1 + 1 >= Len(sentence) /\ HasKeyword(trie, dict1)
                THEN Append(out1, <<trie[dict1], st.sequence_start_pos, Len(sentence)>>)
                ELSE out1
    IN  [idx |-> idx1 + 1,
         current_dict |-> dict1,
         sequence_start_pos |-> ResetStart(~continue, st.sequence_start_pos, idx1 + 1),
         keywords_extracted |-> out2]

RECURSIVE ScanLoop(_, _, _)
ScanLoop(trie, sentence, st) ==
    IF st.idx < Len(sentence) THEN ScanLoop(trie, sentence, ScanStep(trie, sentence, st))
    ELSE st.keywords_extracted

\* KeywordProcessor.extract_keywords(sentence, span_info=True)
extract_keywords(trie, cs, sentence) ==
    IF sentence = <<>> THEN <<>>
    ELSE ScanLoop(trie, IF cs THEN sentence ELSE lower(sentence), ScanStart)

\* lines 110-117: one RecognizerResult per match, the name dropped
RecognizerResults(matches) ==
    [i \in 1..Len(matches) |-> [start |-> matches[i][2], end |-> matches[i][3]]]

\* PatternFileRecognizer.analyze
analyze(trie, cs, txt) == RecognizerResults(extract_keywords(trie, cs, txt))

\* ------------------------------------------------------------ the operations
NoText == <<"NoText">>
Threads == {1, 2}
Idle ==
    [state |-> "idle", text |-> NoText, sentence |-> <<>>, locals |-> ScanStart,
     results |-> <<>>]

\* sequences over S of length 0..n
RECURSIVE SeqsUpTo(_, _)
SeqsUpTo(S, n) ==
    IF n = 0 THEN {<<>>}
    ELSE LET shorter == SeqsUpTo(S, n - 1)
         IN  shorter \cup {Append(q, x) : q \in shorter, x \in S}

Texts == SeqsUpTo(TextChars, MaxTextLen)
\* the texts handed to a recognizer built from the files of Disk
ProbeTexts == {<<>>, <<"a">>, <<"A", " ", "b">>}
ThreadTexts == SeqsUpTo(ThreadChars, MaxThreadTextLen)

\* an __init__ that validates its arguments after loading
InitOrderCheckLate ==
    <<"create", "load_allowlist", "load_patterns", "check", "filter", "add_keywords">>

\* the statements of __init__ (lines 21-45), in order
InitOrder ==
    <<"check", "create", "load_allowlist", "load_patterns", "filter", "add_keywords">>

After(stmt) ==
    LET k == CHOOSE n \in 1..Len(InitOrder) : InitOrder[n] = stmt
    IN  IF k < Len(InitOrder) THEN InitOrder[k + 1] ELSE "built"

Init ==
    /\ patterns_files \in SeqsUpTo(FileSpecs, MaxPatternsFiles)
    /\ allowlist_files \in SeqsUpTo(FileSpecs, MaxAllowlistFiles)
    /\ csv_column \in {"name", "word"}
    /\ case_sensitive \in BOOLEAN
    /\ pc = InitOrder[1]
    /\ next_file = 1
    /\ error = "none"
    /\ accessed = <<>>
    /\ allowlist = {}
    /\ patterns = <<>>
    /\ filtered_patterns = <<>>
    /\ keyword_trie_dict = EmptyTrie
    /\ request = NoText
    /\ text = NoText
    /\ results = <<>>
    /\ threads = [t \in Threads |-> Idle]

\* a loader that notes the error and carries on with the next statement
RaiseLater(e) ==
    /\ pc' = After(pc)
    /\ error' = e

\* raise: __init__ is left, no recognizer is returned
Raise(e) ==
    /\ pc' = "failed"
    /\ error' = e

\* lines 21-22
CheckPatternsFiles ==
    /\ pc = "check"
    /\ IF patterns_files = <<>>
       THEN Raise("ValueError: patterns_files must be non-empty")
       ELSE pc' = After("check") /\ error' = error
    /\ UNCHANGED <<config, next_file, accessed, allowlist, patterns, filtered_patterns,
                   keyword_trie_dict, text, results, threads>>

\* lines 24-32
CreateProcessor ==
    /\ pc = "create"
    /\ keyword_trie_dict' = EmptyTrie
    /\ pc' = After("create")
    /\ UNCHANGED <<config, next_file, error, accessed, allowlist, patterns, filtered_patterns,
                   text, results, threads>>

\* line 34, _load_allowlist: one iteration of the loop, or the return
LoadAllowlistFile ==
    /\ pc = "load_allowlist"
    /\ IF next_file > Len(allowlist_files)
       THEN /\ pc' = After("load_allowlist")
            /\ next_file' = 1
            /\ UNCHANGED <<error, accessed, allowlist>>
       ELSE LET file_spec == allowlist_files[next_file]
                e == LoadError(file_spec, csv_column)
            IN  /\ accessed' = Append(accessed, SpecPath(file_spec))
                /\ IF e # "none"
                   THEN Raise(e) /\ UNCHANGED <<next_file, allowlist>>
                   ELSE /\ allowlist' = allowlist \cup Range(_load_file(file_spec, csv_column))
                        /\ next_file' = next_file + 1
                        /\ UNCHANGED <<pc, error>>
    /\ UNCHANGED <<config, patterns, filtered_patterns, keyword_trie_dict,
                   text, results, threads>>

\* line 35, _load_patterns: one iteration of the loop, or the return (line 51)
LoadPatternsFile ==
    /\ pc = "load_patterns"
    /\ IF next_file > Len(patterns_files)
       THEN /\ patterns' = fromkeys(patterns, {})
            /\ pc' = After("load_patterns")
            /\ next_file' = 1
            /\ UNCHANGED <<error, accessed>>
       ELSE LET file_spec == patterns_files[next_file]
                e == LoadError(file_spec, csv_column)
            IN  /\ accessed' = Append(accessed, SpecPath(file_spec))
                /\ IF e # "none"
                   THEN Raise(e) /\ UNCHANGED <<next_file, patterns>>
                   ELSE /\ patterns' = patterns \o _load_file(file_spec, csv_column)
                        /\ next_file' = next_file + 1
                        /\ UNCHANGED <<pc, error>>
    /\ UNCHANGED <<config, allowlist, filtered_patterns, keyword_trie_dict,
                   text, results, threads>>

\* lines 37-43
Filter ==
    /\ pc = "filter"
    /\ filtered_patterns' = FilterPatterns(patterns, allowlist, case_sensitive)
    /\ pc' = After("filter")
    /\ UNCHANGED <<config, next_file, error, accessed, allowlist, patterns, keyword_trie_dict,
                   text, results, threads>>

\* line 45
AddKeywords ==
    /\ pc = "add_keywords"
    /\ keyword_trie_dict' =
           add_keywords_from_list(keyword_trie_dict, filtered_patterns, case_sensitive)
    /\ pc' = After("add_keywords")
    /\ UNCHANGED <<config, next_file, error, accessed, allowlist, patterns, filtered_patterns,
                   text, results, threads>>

\* lines 104-119, run to completion on one text
Analyze(txt) ==
    /\ pc = "built"
    /\ text' = txt
    /\ results' = analyze(keyword_trie_dict, case_sensitive, txt)
    /\ UNCHANGED <<config, pc, next_file, error, accessed, allowlist, patterns,
                   filtered_patterns, keyword_trie_dict, threads>>

AnalyzeProbe == \E txt \in ProbeTexts : Analyze(txt)

Next ==
    \/ CheckPatternsFiles
    \/ CreateProcessor
    \/ LoadAllowlistFile
    \/ LoadPatternsFile
    \/ Filter
    \/ AddKeywords
    \/ AnalyzeProbe

Spec == Init /\ [][Next]_vars

\* ------------------------------------------------ the scanner on given patterns
\* filtered lists the loader can produce: stripped, non-empty, no duplicates
Keywords ==
    { <<"a">>, <<"A">>, <<"b">>, <<"a", "b">>, <<"a", " ", "b">>, <<"b", " ", "a">>,
      <<"-", "b">>, <<"a", "-">>, <<"IDOT">> }

NoDuplicates(s) == \A m, n \in DOMAIN s : m # n => s[m] # s[n]

KeywordLists == {l \in SeqsUpTo(Keywords, MaxPatterns) : NoDuplicates(l)}

GivenSource == << <<"given", NoColumn>> >>

\* __init__ about to run line 45 with some filtered list in hand
InitScan ==
    /\ patterns_files = GivenSource
    /\ allowlist_files = <<>>
    /\ csv_column = "name"
    /\ case_sensitive \in BOOLEAN
    /\ pc = "add_keywords"
    /\ next_file = 1
    /\ error = "none"
    /\ accessed = <<"given">>
    /\ allowlist = {}
    /\ filtered_patterns \in KeywordLists
    /\ patterns = filtered_patterns
    /\ keyword_trie_dict = EmptyTrie
    /\ request \in Texts
    /\ text = NoText
    /\ results = <<>>
    /\ threads = [t \in Threads |-> Idle]

AnalyzeText == Analyze(request)

NextScan ==
    \/ AddKeywords
    \/ AnalyzeText

SpecScan == InitScan /\ [][NextScan]_vars

\* ------------------------------------------- analyze calls on several threads
ThreadKeywordLists ==
    { << <<"a">> >>,
      << <<"a">>, <<"a", " ", "a">> >>,
      << <<"a", "a">>, <<"A", " ", "a">> >> }

\* a built recognizer, no call in progress
InitThreads ==
    /\ patterns_files = GivenSource
    /\ allowlist_files = <<>>
    /\ csv_column = "name"
    /\ case_sensitive \in BOOLEAN
    /\ pc = "built"
    /\ next_file = 1
    /\ error = "none"
    /\ accessed = <<"given">>
    /\ allowlist = {}
    /\ filtered_patterns \in ThreadKeywordLists
    /\ patterns = filtered_patterns
    /\ keyword_trie_dict =
           add_keywords_from_list(EmptyTrie, filtered_patterns, case_sensitive)
    /\ request = NoText
    /\ text = NoText
    /\ results = <<>>
    /\ threads = [t \in Threads |-> Idle]

\* analyze is entered (line 107) and extract_keywords sets up its locals
Call(t) ==
    /\ pc = "built"
    /\ threads[t].state \in {"idle", "done"}
    /\ \E txt \in ThreadTexts :
          threads' = [threads EXCEPT ![t] =
              [state |-> "running", text |-> txt,
               sentence |-> IF case_sensitive THEN txt ELSE lower(txt),
               locals |-> ScanStart, results |-> <<>>]]
    /\ UNCHANGED <<config, pc, next_file, error, accessed, allowlist, patterns,
                   filtered_patterns, keyword_trie_dict, text, results>>

\* one iteration of the loop of extract_keywords on thread t
Iterate(t) ==
    /\ threads[t].state = "running"
    /\ threads[t].locals.idx < Len(threads[t].sentence)
    /\ threads' = [threads EXCEPT ![t].locals =
                      ScanStep(keyword_trie_dict, threads[t].sentence, @)]
    /\ UNCHANGED <<config, pc, next_file, error, accessed, allowlist, patterns,
                   filtered_patterns, keyword_trie_dict, text, results>>

\* extract_keywords returns and analyze builds its results (lines 110-119)
Return(t) ==
    /\ threads[t].state = "running"
    /\ threads[t].locals.idx >= Len(threads[t].sentence)
    /\ threads' = [threads EXCEPT
                      ![t].state = "done",
                      ![t].results = RecognizerResults(threads[t].locals.keywords_extracted)]
    /\ UNCHANGED <<config, pc, next_file, error, accessed, allowlist, patterns,
                   filtered_patterns, keyword_trie_dict, text, results>>

CallAny == \E t \in Threads : Call(t)
IterateAny == \E t \in Threads : Iterate(t)
ReturnAny == \E t \in Threads : Return(t)

NextThreads ==
    \/ CallAny
    \/ IterateAny
    \/ ReturnAny

SpecThreads == InitThreads /\ [][NextThreads]_vars

\* ------------------------------------------------------------------ properties
\* Python's t[s:e]
Slice(t, s, e) == SubSeq(t, s + 1, e)

\* a word character: alphanumeric or underscore in Python's classification of
\* str (str.isalnum() is True for U+0130 and False for U+0307)
IsWordChar(c) == c \in {"a", "A", "b", "i", "IDOT", "_"}

\* offset k of t is outside t, or holds a character that is not a word character
NotWordAt(t, k) == k < 0 \/ k >= Len(t) \/ ~IsWordChar(t[k + 1])

\* the comparison the case flag asks for
EqualUnderFlag(x, p) == IF case_sensitive THEN x = p ELSE lower(x) = lower(p)

\* some pattern of the final set occupies [s, e) of t
Occurs(t, s, e) ==
    /\ 0 <= s /\ s < e /\ e <= Len(t)
    /\ \E p \in Range(filtered_patterns) : EqualUnderFlag(Slice(t, s, e), p)

\* ... and is not adjacent to a word character
ValidMatch(t, s, e) == Occurs(t, s, e) /\ NotWordAt(t, s - 1) /\ NotWordAt(t, e)

LongestValid(t, s, e) ==
    ValidMatch(t, s, e) /\ \A e2 \in (e + 1)..Len(t) : ~ValidMatch(t, s, e2)

Reported(s, e) == \E k \in DOMAIN results : results[k] = [start |-> s, end |-> e]

Analyzed == pc = "built" /\ text # NoText

\* C1: every reported span has no word character (alphanumeric or underscore)
\* just before its start or at its end
C1_WordBoundary ==
    Analyzed =>
        \A k \in DOMAIN results :
            NotWordAt(text, results[k].start - 1) /\ NotWordAt(text, results[k].end)

C3_CaseFlag ==
    Analyzed =>
        \A k \in DOMAIN results : Occurs(text, results[k].start, results[k].end)

\* the entries of the sources, in source order
RECURSIVE Entries(_)
Entries(files) ==
    IF files = <<>> THEN <<>>
    ELSE _load_file(Head(files), csv_column) \o Entries(Tail(files))

Key(p) == IF case_sensitive THEN p ELSE lower(p)

\* entry k is a first occurrence and its key is no allowlist key
Kept(e, allow, k) ==
    /\ \A j \in 1..(k - 1) : e[j] # e[k]
    /\ Key(e[k]) \notin {Key(a) : a \in allow}

RECURSIVE Pick(_, _, _)
Pick(e, allow, k) ==
    IF k > Len(e) THEN <<>>
    ELSE (IF Kept(e, allow, k) THEN <<e[k]>> ELSE <<>>) \o Pick(e, allow, k + 1)

Loaded == pc \in {"add_keywords", "built"}

\* C4: the list handed to the scanner is the concatenated entries of the pattern
\* sources, first occurrences only (exact equality), without the entries whose
\* comparison key is the key of an allowlist entry, in first-seen order
C4_ReferenceList ==
    Loaded =>
        filtered_patterns =
            Pick(Entries(patterns_files), Range(Entries(allowlist_files)), 1)

C4_Witness ==
    /\ pc = "built" /\ ~case_sensitive
    /\ Len(Entries(patterns_files)) > Len(patterns)
    /\ \E p \in Range(patterns) : p \notin allowlist /\ p \notin Range(filtered_patterns)
    /\ filtered_patterns # <<>>

EmptyError == "ValueError: patterns_files must be non-empty"

\* C5: with no pattern source, construction does not get past its first check:
\* it raises the configuration error or nothing, and no path is ever accessed
C5_EmptyFailsFirst ==
    patterns_files = <<>> =>
        /\ accessed = <<>>
        /\ error \in {"none", EmptyError}
        /\ pc # "built"
        /\ keyword_trie_dict = EmptyTrie

C5_Witness ==
    patterns_files = <<>> /\ allowlist_files # <<>> /\ pc = "failed" /\ error = EmptyError

\* file_spec names a source that exists and, if tabular, has its column
Usable(file_spec) ==
    LET f == Disk[file_spec[1]]
        column == IF file_spec[2] = NoColumn THEN csv_column ELSE file_spec[2]
    IN  /\ f.exists
        /\ f.suffix \in {".csv", ".CSV"} =>
               \E k \in DOMAIN f.fieldnames : f.fieldnames[k] = column

AllUsable == \A file_spec \in Range(patterns_files) \cup Range(allowlist_files) : Usable(file_spec)

\* C6: an error leaves construction failed with nothing added to the scanner and
\* no analyze call served; a recognizer is built only without error and only
\* when every referenced source exists and has its column
C6_AllOrNothing ==
    /\ error # "none" =>
           pc = "failed" /\ keyword_trie_dict = EmptyTrie /\ text = NoText /\ results = <<>>
    /\ pc = "built" => error = "none" /\ AllUsable
    /\ text # NoText => pc = "built"

C6_Witness ==
    pc = "failed" /\ error = "FileNotFoundError" /\ patterns # <<>> /\ allowlist # {}

\* C7: no recognizer is built on an empty final pattern set
C7_EmptySetRejected == pc = "built" => filtered_patterns # <<>>

\* C8: two valid occurrences of patterns, each the longest at its start, that
\* start at different positions and whose spans overlap are both reported
C8_BothReported ==
    Analyzed =>
        \A s1, s2 \in 0..Len(text) : \A e1, e2 \in 1..Len(text) :
            (s1 < s2 /\ s2 < e1
                /\ LongestValid(text, s1, e1) /\ LongestValid(text, s2, e2))
                => (Reported(s1, e1) /\ Reported(s2, e2))

\* C8 as amended: reported spans never overlap or touch; each starts after the
\* end of the one before it
C8_NoOverlap ==
    Analyzed =>
        \A m, n \in DOMAIN results : m < n => results[m].end < results[n].start

C8_Witness ==
    /\ Analyzed
    /\ Len(results) = 1
    /\ \E s1, s2 \in 0..Len(text) : \E e1, e2 \in 1..Len(text) :
           /\ s1 < s2 /\ s2 < e1
           /\ LongestValid(text, s1, e1) /\ LongestValid(text, s2, e2)
           /\ Reported(s1, e1)

Done(t) == threads[t].state = "done"

\* C9: a finished analyze call returns what an undisturbed scan of its text
\* returns, two finished calls on the same text return the same spans, and no
\* step of any call changes the pattern set, the trie or the case flag
C9_Deterministic ==
    /\ [](\A t \in Threads :
            Done(t) => threads[t].results =
                         analyze(keyword_trie_dict, case_sensitive, threads[t].text))
    /\ [](\A t, u \in Threads :
            (Done(t) /\ Done(u) /\ threads[t].text = threads[u].text)
                => threads[t].results = threads[u].results)
    /\ [][UNCHANGED <<keyword_trie_dict, case_sensitive, filtered_patterns>>]_vars

C9_Witness ==
    /\ Done(1) /\ Done(2)
    /\ threads[1].text = threads[2].text
    /\ Len(threads[1].results) = 2

\* C10: no two entries of the final pattern set are equal under the configured
\* comparison (same string when case_sensitive, same folded form otherwise)
C10_UniqueUnderFlag ==
    Loaded =>
        \A m, n \in DOMAIN filtered_patterns :
            m # n => Key(filtered_patterns[m]) # Key(filtered_patterns[n])

\* C10 as amended: no two entries of the final pattern set are the same string
C10_UniqueExact == Loaded => NoDuplicates(filtered_patterns)

C10_Witness ==
    /\ pc = "built" /\ ~case_sensitive
    /\ Len(Entries(patterns_files)) > Len(patterns)
    /\ \E m, n \in DOMAIN filtered_patterns :
           m # n /\ lower(filtered_patterns[m]) = lower(filtered_patterns[n])

====
